---- MODULE Spec2Model ----
(***************************************************************************)
(* StewardAI: the response sanitizer and plan generation of                *)
(* services/geminiService.ts, the credential gate (ApiKeyModal), the App   *)
(* shell (app.tsx), the dashboard (StrategyView) and the advisory chat     *)
(* (AgentChat), as state machines.                                         *)
(***************************************************************************)
EXTENDS Integers, Sequences, FiniteSets, TLC

VARIABLES
    \* validateAndSanitizePlan called on its own
    data,            \* the parsed structured payload (any JSON value)
    summary,         \* the narrative text handed to the sanitizer
    sanitizedPlan,   \* what the call produced: a Plan object or a TypeError
    sanPc,           \* "call" before the call, "done" after it
    \* generateInvestmentStrategy called on its own
    genKey,          \* the apiKey argument
    response,        \* what ai.models.generateContent does: a response, or a raised error
    genResult,       \* what the call produced: the Plan returned or the error raised
    genPc,           \* "call" before the call, "done" after it
    \* one credential verification on its own
    entry,           \* the function entered: "handleSave" (the gate) or "verifyApiKey"
    candidate,       \* the string typed at the gate, or handed to verifyApiKey
    verResult,       \* result of the validation request, once it has come back
    verValid,        \* the verdict
    verCalls,        \* validation requests sent
    verPc,           \* "start", "await" (request in flight), "done"
    \* the application: local storage
    lsKey,           \* localStorage steward_ai_api_key: null or the string
    lsChat,          \* localStorage steward_ai_chat_history: null or the string
    \* App (app.tsx)
    appPc,           \* "boot" until the startup effect has run, then "run"
    apiKey,          \* App.apiKey: null or the string
    plan,            \* App.plan: the object held (its reference and its value), or null
    loading,         \* App.loading
    error,           \* App.error: null or the message
    genCount,        \* handleGenerate calls that sent a request so far
    pendingGen,      \* handleGenerate calls awaiting generateInvestmentStrategy
    \* ApiKeyModal, shown while apiKey is empty
    key,             \* ApiKeyModal.key: the input value
    gateError,       \* ApiKeyModal.error
    gateIsLoading,   \* ApiKeyModal.isLoading
    gatePc,          \* handleSave: "idle", or "await" inside onVerify
    isValid,         \* handleSave.isValid, as last computed
    \* StrategyView, shown while plan || loading
    activeTab,       \* StrategyView.activeTab
    \* AgentChat, mounted on the overview tab of a loaded plan
    chatMounted,     \* whether an AgentChat instance is mounted
    messages,        \* AgentChat.messages
    chatSession,     \* AgentChat.chatSession: null or the session created
    input,           \* AgentChat.input
    isThinking,      \* AgentChat.isThinking
    sendCount,       \* handleSend calls that sent a request so far
    pendingChat,     \* handleSend calls awaiting chatSession.sendMessage
    savedMessages    \* the message list as of the last write of the chat history

sanVars == <<data, summary, sanitizedPlan, sanPc>>
genVars == <<genKey, response, genResult, genPc>>
verVars == <<entry, candidate, verResult, verValid, verCalls, verPc>>
storeVars == <<lsKey, lsChat, savedMessages>>
appVars == <<appPc, apiKey, plan, loading, error, genCount, pendingGen>>
gateVars == <<key, gateError, gateIsLoading, gatePc, isValid>>
chatVars == <<chatMounted, messages, chatSession, input, isThinking, sendCount, pendingChat>>
uiVars == <<storeVars, appVars, gateVars, activeTab, chatVars>>
vars == <<sanVars, genVars, verVars, uiVars>>

(***************************************************************************)
(* JavaScript values, as JSON.parse yields them, plus undefined.  Each     *)
(* kind keeps its payload under a field of its own.                        *)
(***************************************************************************)
JUndef == [t |-> "undefined"]
JNull == [t |-> "null"]
JNum(n) == [t |-> "number", n |-> n]
JStr(s) == [t |-> "string", s |-> s]
JBool(b) == [t |-> "boolean", b |-> b]
JArr(a) == [t |-> "array", a |-> a]
JObj(o) == [t |-> "object", o |-> o]

EmptyFields == [k \in {} |-> JNull]
EmptyObj == JObj(EmptyFields)

\* typeof v: arrays and null are "object"
typeof(v) ==
    IF v.t \in {"array", "object", "null"} THEN "object" ELSE v.t

IsArray(v) == v.t = "array"

\* ToBoolean(v)
Truthy(v) ==
    CASE v.t = "undefined" -> FALSE
      [] v.t = "null" -> FALSE
      [] v.t = "number" -> v.n # 0
      [] v.t = "string" -> v.s # ""
      [] v.t = "boolean" -> v.b
      [] OTHER -> TRUE

\* a || b
Or(a, b) == IF Truthy(a) THEN a ELSE b

\* v.k raises a TypeError exactly when v is null or undefined
GetThrows(v) == v.t \in {"null", "undefined"}

\* v.k where it does not raise: an own field of an object, undefined otherwise
\* (none of the names read here is a property of an array, string, number or boolean)
Get(v, k) ==
    IF v.t = "object" /\ k \in DOMAIN v.o THEN v.o[k] ELSE JUndef

TypeError == [t |-> "TypeError"]

(***************************************************************************)
(* validateAndSanitizePlan                                                 *)
(***************************************************************************)
DefaultTechnicalAnalysis ==
    JObj([summary |-> JStr("No technical analysis provided."), support |-> JStr("-"),
          resistance |-> JStr("-"), indicatorSignal |-> JStr("-")])

DefaultMarketSentiment ==
    JObj([score |-> JStr("Neutral"), summary |-> JStr("No sentiment analysis provided."),
          analystRating |-> JStr("-")])

DefaultSwot ==
    JObj([strengths |-> JArr(<<>>), weaknesses |-> JArr(<<>>),
          opportunities |-> JArr(<<>>), threats |-> JArr(<<>>)])

DefaultMarketAnalysis ==
    JObj([macroOutlook |-> JStr(""), inflationForecast |-> JStr(""),
          interestRateView |-> JStr("")])

\* (typeof x === 'object' && x) ? x : d, and (typeof x === 'object' && x) || d
ObjectOr(x, d) == IF typeof(x) = "object" /\ Truthy(x) THEN x ELSE d

\* a filter that keeps every object, leaving the ticker to the placeholder of the map
AllocationFilter_AnyObject(a) == typeof(a) = "object"

\* the filter of line 59: typeof a === 'object' && a.ticker
AllocationFilterThrows(a) == typeof(a) = "object" /\ GetThrows(a)
AllocationFilter(a) == typeof(a) = "object" /\ Truthy(Get(a, "ticker"))

\* the map without the placeholder records: what the entry has is passed on
SanitizeAllocation_NoPlaceholders(a) ==
    JObj([ticker |-> Or(Get(a, "ticker"), JStr("N/A")),
          name |-> Or(Get(a, "name"), JStr("N/A")),
          sector |-> Or(Get(a, "sector"), JStr("N/A")),
          percentage |-> Or(Get(a, "percentage"), JNum(0)),
          type |-> Or(Get(a, "type"), JStr("ETF")),
          rationale |-> Or(Get(a, "rationale"), JStr("No rationale provided.")),
          accountType |-> Or(Get(a, "accountType"), JStr("Brokerage")),
          dividendYield |-> Get(a, "dividendYield"),
          technicalAnalysis |-> Get(a, "technicalAnalysis"),
          marketSentiment |-> Get(a, "marketSentiment")])

\* the map of lines 60-75
SanitizeAllocation(a) ==
    JObj([ticker |-> Or(Get(a, "ticker"), JStr("N/A")),
          name |-> Or(Get(a, "name"), JStr("N/A")),
          sector |-> Or(Get(a, "sector"), JStr("N/A")),
          percentage |-> Or(Get(a, "percentage"), JNum(0)),
          type |-> Or(Get(a, "type"), JStr("ETF")),
          rationale |-> Or(Get(a, "rationale"), JStr("No rationale provided.")),
          accountType |-> Or(Get(a, "accountType"), JStr("Brokerage")),
          dividendYield |-> Get(a, "dividendYield"),
          technicalAnalysis |-> ObjectOr(Get(a, "technicalAnalysis"), DefaultTechnicalAnalysis),
          marketSentiment |-> ObjectOr(Get(a, "marketSentiment"), DefaultMarketSentiment)])

\* the filter of line 83: typeof p === 'object' && p.year
ProjectionFilterThrows(p) == typeof(p) = "object" /\ GetThrows(p)
ProjectionFilter(p) == typeof(p) = "object" /\ Truthy(Get(p, "year"))

\* the filter of lines 86 and 87: typeof e === 'object'
ObjectFilter(e) == typeof(e) = "object"

\* the allocations of the payload passed on without the Array.isArray test
SanitizeAllocations_Unchecked(d) == Get(d, "allocations")

SanitizeAllocations(d) ==
    IF IsArray(Get(d, "allocations"))
    THEN LET kept == SelectSeq(Get(d, "allocations").a, AllocationFilter)
         IN  JArr([i \in 1..Len(kept) |-> SanitizeAllocation(kept[i])])
    ELSE JArr(<<>>)

SanitizeProjections(d) ==
    IF IsArray(Get(d, "projections"))
    THEN JArr(SelectSeq(Get(d, "projections").a, ProjectionFilter))
    ELSE JArr(<<>>)

SanitizeObjectList(d, k) ==
    IF IsArray(Get(d, k)) THEN JArr(SelectSeq(Get(d, k).a, ObjectFilter)) ELSE JArr(<<>>)

\* the property reads that raise: data.allocations on null (line 58), a.ticker on a
\* null element (line 59), p.year on a null element (line 83)
SanitizeThrows(d) ==
    \/ GetThrows(d)
    \/ /\ IsArray(Get(d, "allocations"))
       /\ \E i \in 1..Len(Get(d, "allocations").a) :
              AllocationFilterThrows(Get(d, "allocations").a[i])
    \/ /\ IsArray(Get(d, "projections"))
       /\ \E i \in 1..Len(Get(d, "projections").a) :
              ProjectionFilterThrows(Get(d, "projections").a[i])

\* a sanitizer that back-fills the portfolio analysis as it does swot and marketAnalysis
SanitizePortfolioAnalysis_BackFilled(d) ==
    ObjectOr(Get(d, "portfolioAnalysis"),
             JObj([currentScore |-> JNum(0), analysis |-> JStr(""), rebalancingOrders |-> JArr(<<>>)]))

SanitizePortfolioAnalysis(d) ==
    IF typeof(Get(d, "portfolioAnalysis")) = "object" THEN Get(d, "portfolioAnalysis") ELSE JUndef

validateAndSanitizePlan(d, s) ==
    IF SanitizeThrows(d) THEN TypeError
    ELSE JObj([summary |-> Or(s, JStr("No summary provided.")),
               riskAnalysis |-> Or(Get(d, "riskAnalysis"), JStr("")),
               actionableSteps |-> IF IsArray(Get(d, "actionableSteps"))
                                   THEN Get(d, "actionableSteps") ELSE JArr(<<>>),
               swot |-> ObjectOr(Get(d, "swot"), DefaultSwot),
               allocations |-> SanitizeAllocations(d),
               projections |-> SanitizeProjections(d),
               sources |-> JArr(<<>>),
               marketAnalysis |-> ObjectOr(Get(d, "marketAnalysis"), DefaultMarketAnalysis),
               secEvents |-> SanitizeObjectList(d, "secEvents"),
               sectorTrends |-> SanitizeObjectList(d, "sectorTrends"),
               portfolioAnalysis |-> SanitizePortfolioAnalysis(d)])

(***************************************************************************)
(* The payloads the sanitizer is called on: every kind of JSON value at    *)
(* the top level, and objects whose allocations field and one other field  *)
(* range over well-formed, partial, wrong-typed and null shapes.           *)
(***************************************************************************)
MaxAllocs == 2

SampleTechnicalAnalysis ==
    JObj([summary |-> JStr("uptrend"), support |-> JStr("200"),
          resistance |-> JStr("250"), indicatorSignal |-> JStr("buy")])

SampleMarketSentiment ==
    JObj([score |-> JStr("Bullish"), summary |-> JStr("positive"), analystRating |-> JStr("Buy")])

FullAllocation ==
    JObj([ticker |-> JStr("VTI"), name |-> JStr("Total Market"), sector |-> JStr("Broad"),
          percentage |-> JNum(60), type |-> JStr("Stock"), rationale |-> JStr("core holding"),
          accountType |-> JStr("Roth IRA"), dividendYield |-> JNum(2),
          technicalAnalysis |-> SampleTechnicalAnalysis,
          marketSentiment |-> SampleMarketSentiment])

AllocationEntries ==
    { JNull, JNum(7), JStr("VTI"), JArr(<<>>), EmptyObj,
      JObj([ticker |-> JStr("VTI"), percentage |-> JNum(60)]),
      FullAllocation,
      JObj([ticker |-> JStr(""), name |-> JStr("Nameless")]),
      JObj([ticker |-> JStr("BND"), percentage |-> JStr("40"), type |-> JStr("Gold"),
            accountType |-> JNum(1), technicalAnalysis |-> JNull,
            marketSentiment |-> JStr("bullish")]),
      JObj([ticker |-> JNum(5), name |-> JNum(0), technicalAnalysis |-> JArr(<<>>)]) }

\* JUndef stands for a payload without the field
AllocationsValues ==
    { JUndef, JNull, EmptyObj, JStr("VTI"), JNum(60) }
    \cup { JArr(a) : a \in UNION { [1..n -> AllocationEntries] : n \in 0..MaxAllocs } }

SampleProjection ==
    JObj([year |-> JNum(2030), conservative |-> JNum(100), expected |-> JNum(120),
          aggressive |-> JNum(150), inflationAdjusted |-> JNum(90),
          totalContributions |-> JNum(80)])

SampleSecEvent ==
    JObj([ticker |-> JStr("VTI"), type |-> JStr("10-K"), date |-> JStr("2025-01-01"),
          summary |-> JStr("annual report"), sentiment |-> JStr("neutral")])

SampleSectorTrend ==
    JObj([sector |-> JStr("Tech"), trend |-> JStr("hold"), performance |-> JNum(5),
          reasoning |-> JStr("stable")])

SampleSwot ==
    JObj([strengths |-> JArr(<<JStr("saves")>>), weaknesses |-> JArr(<<>>),
          opportunities |-> JArr(<<JStr("roth")>>), threats |-> JArr(<<>>)])

SampleMarketAnalysis ==
    JObj([macroOutlook |-> JStr("steady"), inflationForecast |-> JStr("2.5%"),
          interestRateView |-> JStr("flat")])

SamplePortfolioAnalysis ==
    JObj([currentScore |-> JNum(70), analysis |-> JStr("concentrated"),
          rebalancingOrders |-> JArr(<<>>)])

SampleSource == JObj([title |-> JStr("payload source"), url |-> JStr("http://payload")])

\* one more field of the payload and its value
OtherFieldValues ==
    { <<"riskAnalysis", v>> : v \in { JUndef, JStr("volatile"), JNum(5), JNull, EmptyObj } }
    \cup { <<"actionableSteps", v>> :
              v \in { JArr(<<JStr("save more")>>), JArr(<<JNum(1), JNull>>), JStr("save"), JNull } }
    \cup { <<"swot", v>> :
              v \in { SampleSwot, JNull, JStr("strong"), JArr(<<>>),
                      JObj([strengths |-> JArr(<<JStr("saves")>>)]),
                      JObj([strengths |-> JStr("saves"), weaknesses |-> JNull,
                            opportunities |-> JNum(1), threats |-> EmptyObj]) } }
    \cup { <<"projections", v>> :
              v \in { JArr(<<SampleProjection>>), JArr(<<JNull>>),
                      JArr(<<JObj([year |-> JNum(0)]), JNum(2030), SampleProjection>>),
                      EmptyObj, JNum(30) } }
    \cup { <<"marketAnalysis", v>> :
              v \in { SampleMarketAnalysis, JNull, EmptyObj, JNum(3), JArr(<<>>) } }
    \cup { <<"secEvents", v>> :
              v \in { JArr(<<SampleSecEvent>>), JArr(<<JNull, SampleSecEvent>>),
                      JArr(<<JStr("10-K")>>), JNull } }
    \cup { <<"sectorTrends", v>> :
              v \in { JArr(<<SampleSectorTrend>>), JArr(<<SampleSectorTrend, JNull>>),
                      JArr(<<JNum(5)>>), EmptyObj } }
    \cup { <<"portfolioAnalysis", v>> :
              v \in { JNull, SamplePortfolioAnalysis, JStr("none"), JArr(<<>>) } }
    \cup { <<"sources", v>> : v \in { JArr(<<SampleSource>>) } }

WithField(f, k, v) == IF v.t = "undefined" THEN f ELSE (k :> v) @@ f

PayloadObjects ==
    { JObj(WithField(WithField(EmptyFields, "allocations", al), kv[1], kv[2])) :
        al \in AllocationsValues, kv \in OtherFieldValues }

Payloads ==
    { JNull, JNum(1), JStr("plan"), JBool(TRUE), JBool(FALSE), JArr(<<>>),
      JArr(<<FullAllocation>>) }
    \cup PayloadObjects

Summaries == { JStr(""), JStr("Your Financial Wellness Plan") }

\* the variables of a part that a specification does not run
SanOff == data = JUndef /\ summary = JUndef /\ sanitizedPlan = JUndef /\ sanPc = "off"
GenOff == genKey = JUndef /\ response = JUndef /\ genResult = JUndef /\ genPc = "off"
VerOff ==
    /\ entry = "off" /\ candidate = JUndef /\ verResult = JUndef
    /\ verValid = FALSE /\ verCalls = 0 /\ verPc = "off"

UiOff ==
    /\ lsKey = JNull /\ lsChat = JNull /\ savedMessages = <<>>
    /\ appPc = "off" /\ apiKey = JNull /\ plan = JNull /\ loading = FALSE /\ error = JNull
    /\ genCount = 0 /\ pendingGen = {}
    /\ key = JUndef /\ gateError = JNull /\ gateIsLoading = FALSE /\ gatePc = "off"
    /\ isValid = FALSE
    /\ activeTab = "off"
    /\ chatMounted = FALSE /\ messages = <<>> /\ chatSession = JNull /\ input = JUndef
    /\ isThinking = FALSE /\ sendCount = 0 /\ pendingChat = {}

InitSanitize ==
    /\ GenOff /\ VerOff /\ UiOff
    /\ data \in Payloads
    /\ summary \in Summaries
    /\ sanitizedPlan = JUndef
    /\ sanPc = "call"

Sanitize ==
    /\ sanPc = "call"
    /\ sanitizedPlan' = validateAndSanitizePlan(data, summary)
    /\ sanPc' = "done"
    /\ UNCHANGED <<data, summary, genVars, verVars, uiVars>>

NextSanitize == Sanitize

SpecSanitize == InitSanitize /\ [][NextSanitize]_vars

(***************************************************************************)
(* The declared types of types.ts, as predicates on JavaScript values.     *)
(***************************************************************************)
IsString(v) == v.t = "string"
IsNumber(v) == v.t = "number"
IsRecord(v) == v.t = "object"
IsList(v) == v.t = "array"
IsListOfStrings(v) == IsList(v) /\ \A i \in 1..Len(v.a) : IsString(v.a[i])
IsListOfRecords(v) == IsList(v) /\ \A i \in 1..Len(v.a) : IsRecord(v.a[i])
IsOneOf(v, names) == v.t = "string" /\ v.s \in names

IsSwot(v) ==
    /\ IsRecord(v)
    /\ \A k \in {"strengths", "weaknesses", "opportunities", "threats"} :
           IsListOfStrings(Get(v, k))

IsMarketAnalysis(v) ==
    /\ IsRecord(v)
    /\ \A k \in {"macroOutlook", "inflationForecast", "interestRateView"} :
           IsString(Get(v, k))

IsAllocationItem(v) ==
    /\ IsRecord(v)
    /\ \A k \in {"ticker", "name", "sector", "rationale"} : IsString(Get(v, k))
    /\ IsNumber(Get(v, "percentage"))
    /\ IsOneOf(Get(v, "type"), {"Stock", "ETF", "Bond", "REIT", "Crypto"})
    /\ IsOneOf(Get(v, "accountType"), {"Roth IRA", "Brokerage", "Both"})
    /\ IsRecord(Get(v, "technicalAnalysis"))
    /\ IsRecord(Get(v, "marketSentiment"))

IsInvestmentPlan(v) ==
    /\ IsRecord(v)
    /\ IsString(Get(v, "summary"))
    /\ IsString(Get(v, "riskAnalysis"))
    /\ IsListOfStrings(Get(v, "actionableSteps"))
    /\ IsSwot(Get(v, "swot"))
    /\ IsList(Get(v, "allocations"))
    /\ \A i \in 1..Len(Get(v, "allocations").a) : IsAllocationItem(Get(v, "allocations").a[i])
    /\ IsListOfRecords(Get(v, "projections"))
    /\ IsListOfRecords(Get(v, "sources"))
    /\ IsMarketAnalysis(Get(v, "marketAnalysis"))
    /\ IsListOfRecords(Get(v, "secEvents"))
    /\ IsListOfRecords(Get(v, "sectorTrends"))

\* C1: the sanitizer is total: on every JSON value (object, array, string, number,
\* boolean, null), also with null or non-object list elements, the call returns a
\* Plan object and raises nothing.
C1_SanitizerTotal == sanPc = "done" => sanitizedPlan.t = "object"

\* C2: whatever the payload, a Plan the sanitizer returns has a value of the
\* declared type in every field (strings, lists of non-null records, the four swot
\* lists, the three market-analysis strings, numeric percentage, enumerated
\* type/accountType).
C2_SanitizedPlanWellTyped ==
    (sanPc = "done" /\ sanitizedPlan.t = "object") => IsInvestmentPlan(sanitizedPlan)

(***************************************************************************)
(* Text.  A string is a sequence of pieces: " " is whitespace, "FENCE" the  *)
(* three backticks, "json" the word after an opening fence, "x" narrative, *)
(* and a JSON document or a broken one is one piece.                       *)
(***************************************************************************)
Text(c) == [t |-> "string", c |-> c]
NoText == [t |-> "undefined"]

MinOf(S) == CHOOSE i \in S : \A j \in S : i <= j
MaxOf(S) == CHOOSE i \in S : \A j \in S : j <= i

\* String.prototype.trim
Trim(c) ==
    LET solid == { i \in 1..Len(c) : c[i] # " " }
    IN  IF solid = {} THEN <<>> ELSE SubSeq(c, MinOf(solid), MaxOf(solid))

\* the string a sequence of pieces spells
RECURSIVE Join(_)
Join(c) == IF c = <<>> THEN "" ELSE c[1] \o Join(Tail(c))

\* responseText.indexOf of the opening fence: the 0-based place of the first one, or -1
IndexOfFence(c) ==
    LET at == { i \in 1..(Len(c) - 1) : c[i] = "FENCE" /\ c[i + 1] = "json" }
    IN  IF at = {} THEN -1 ELSE MinOf(at) - 1

\* responseText.substring(0, n): a negative n counts as 0
Substring0(c, n) == SubSeq(c, 1, IF n < 0 THEN 0 ELSE n)

\* responseText.match of the opening fence, a greedy group, three backticks: the leftmost opening fence that has a
\* closing one after it, and, the group being greedy, the last closing fence
NoMatch == [matched |-> FALSE, group |-> <<>>]
MatchJsonBlock(c) ==
    LET opens == { i \in 1..(Len(c) - 1) :
                     /\ c[i] = "FENCE" /\ c[i + 1] = "json"
                     /\ \E j \in (i + 2)..Len(c) : c[j] = "FENCE" }
    IN  IF opens = {} THEN NoMatch
        ELSE LET i == MinOf(opens)
                 j == MaxOf({ k \in (i + 2)..Len(c) : c[k] = "FENCE" })
             IN  [matched |-> TRUE, group |-> SubSeq(c, i + 2, j - 1)]

\* the payload the model is asked for, as the scenario of the specification has it
ScenarioPayload ==
    JObj([allocations |-> JArr(<<JObj([ticker |-> JStr("VTI"), percentage |-> JNum(60)])>>),
          actionableSteps |-> JArr(<<JStr("Build your emergency fund")>>),
          sources |-> JArr(<<SampleSource>>),
          portfolioAnalysis |-> JNull])

\* the JSON documents a piece can be, and the value each parses to
DocValue(piece) ==
    CASE piece = "{plan}" -> ScenarioPayload
      [] piece = "null" -> JNull
      [] piece = "[]" -> JArr(<<>>)
      [] piece = "60" -> JNum(60)
      [] piece = "{}" -> EmptyObj
Docs == { "{plan}", "null", "[]", "60", "{}" }

\* JSON.parse: one document, whitespace around it allowed; anything else is a SyntaxError
JSONParse(c) ==
    IF Len(Trim(c)) = 1 /\ Trim(c)[1] \in Docs
    THEN [ok |-> TRUE, value |-> DocValue(Trim(c)[1])]
    ELSE [ok |-> FALSE, value |-> JUndef]

(***************************************************************************)
(* generateInvestmentStrategy                                              *)
(***************************************************************************)
Raised(message) == [t |-> "Error", message |-> message]
Returned(p) == [t |-> "Plan", plan |-> p]

MissingKeyMessage == "API_KEY is missing. Please provide a valid key."
EmptyResponseMessage == "Received an empty response from the AI. The model may be overloaded or the prompt was blocked."
NoJsonBlockMessage == "Failed to find a valid JSON block in the AI response. Please try regenerating."
MalformedJsonMessage == "The AI returned a malformed data structure. Please try regenerating."
TypeErrorMessage == "Cannot read properties of null"

\* chunk.web?.uri && chunk.web?.title
\* a test of the citation that looks at the URL only
ChunkHasUriAndTitle_UriOnly(chunk) ==
    /\ ~GetThrows(Get(chunk, "web"))
    /\ Truthy(Get(Get(chunk, "web"), "uri"))

ChunkHasUriAndTitle(chunk) ==
    /\ ~GetThrows(Get(chunk, "web"))
    /\ Truthy(Get(Get(chunk, "web"), "uri"))
    /\ Truthy(Get(Get(chunk, "web"), "title"))

SourceOfChunk(chunk) ==
    JObj([url |-> Get(Get(chunk, "web"), "uri"), title |-> Get(Get(chunk, "web"), "title")])

\* the forEach of lines 211-219 (and AgentChat.tsx 93-101)
ExtractSources(chunks) ==
    IF Truthy(chunks)
    THEN LET kept == SelectSeq(chunks.a, ChunkHasUriAndTitle)
         IN  JArr([i \in 1..Len(kept) |-> SourceOfChunk(kept[i])])
    ELSE JArr(<<>>)

\* !responseText
TextIsFalsy(text) == text.t = "undefined" \/ text.c = <<>>

\* !apiKey
KeyIsFalsy(k) == IF k.t = "string" THEN k.c = <<>> ELSE TRUE

\* a summary taken from the whole response text
SummaryOf_WholeText(c) == JStr(Join(Trim(c)))

SummaryOf(c) == JStr(Join(Trim(Substring0(c, IndexOfFence(c)))))

\* PlanFromText with the hard failure softened: where no block is found or it does
\* not parse, a Plan is built from the narrative alone
PlanFromText_PartialPlan(c, chunks) ==
    LET m == MatchJsonBlock(c)
        parsed == JSONParse(Trim(m.group))
        payload == IF m.matched /\ parsed.ok THEN parsed.value ELSE EmptyObj
        sanitized == validateAndSanitizePlan(payload, SummaryOf(c))
    IN  IF sanitized = TypeError THEN Raised(TypeErrorMessage)
        ELSE Returned(JObj([sanitized.o EXCEPT !["sources"] = ExtractSources(chunks)]))

\* lines 189-224, the response text being there
PlanFromText(c, chunks) ==
    LET m == MatchJsonBlock(c)
        parsed == JSONParse(Trim(m.group))
        sanitized == validateAndSanitizePlan(parsed.value, SummaryOf(c))
    IN  IF ~m.matched \/ m.group = <<>> THEN Raised(NoJsonBlockMessage)
        ELSE IF ~parsed.ok THEN Raised(MalformedJsonMessage)
        ELSE IF sanitized = TypeError THEN Raised(TypeErrorMessage)
        ELSE Returned(JObj([sanitized.o EXCEPT !["sources"] = ExtractSources(chunks)]))

generateInvestmentStrategy(k, r) ==
    IF KeyIsFalsy(k) THEN Raised(MissingKeyMessage)
    ELSE IF r.t = "Error" THEN r
    ELSE IF TextIsFalsy(r.text) THEN Raised(EmptyResponseMessage)
    ELSE PlanFromText(r.text.c, r.chunks)

(***************************************************************************)
(* The responses the generation is run on: every text of up to MaxTextLen  *)
(* pieces, the citation lists of up to MaxChunks entries, a missing text   *)
(* and the errors the call can raise.                                      *)
(***************************************************************************)
MaxTextLen == 6
MaxChunks == 2

TextPieces == { "x", " ", "FENCE", "json", "{plan}", "{oops" }

SeqsUpTo(S, n) == UNION { [1..k -> S] : k \in 0..n }

GroundingChunks ==
    { JObj([web |-> JObj([uri |-> JStr("http://a"), title |-> JStr("A")])]),
      JObj([web |-> JObj([uri |-> JStr("http://b"), title |-> JStr("B")])]),
      JObj([web |-> JObj([uri |-> JStr("http://c")])]),
      JObj([web |-> JObj([title |-> JStr("D")])]),
      JObj([web |-> JObj([uri |-> JStr(""), title |-> JStr("E")])]),
      EmptyObj }

ChunkLists == { JUndef } \cup { JArr(a) : a \in SeqsUpTo(GroundingChunks, MaxChunks) }

FencedText(doc) == <<"x", " ", "FENCE", "json", " ", doc, " ", "FENCE">>

ApiErrors == { Raised("[400 bad request] API key not valid"), Raised("Failed to fetch") }

GenResponses ==
    { [t |-> "Response", text |-> Text(c), chunks |-> JUndef] : c \in SeqsUpTo(TextPieces, MaxTextLen) }
    \cup { [t |-> "Response", text |-> Text(FencedText(d)), chunks |-> ch] :
              d \in Docs, ch \in ChunkLists }
    \cup { [t |-> "Response", text |-> NoText, chunks |-> ch] : ch \in { JUndef, JArr(<<>>) } }
    \cup ApiErrors

GenKeys == { Text(<<"k">>), Text(<<>>) }

InitGenerate ==
    /\ SanOff /\ VerOff /\ UiOff
    /\ genKey \in GenKeys
    /\ response \in GenResponses
    /\ genKey = Text(<<>>) => response = [t |-> "Response", text |-> NoText, chunks |-> JUndef]
    /\ genResult = JUndef
    /\ genPc = "call"

Generate ==
    /\ genPc = "call"
    /\ genResult' = generateInvestmentStrategy(genKey, response)
    /\ genPc' = "done"
    /\ UNCHANGED <<genKey, response, sanVars, verVars, uiVars>>

NextGenerate == Generate

SpecGenerate == InitGenerate /\ [][NextGenerate]_vars

\* a fenced block: an opening fence and a closing fence after it
FencePairs(c) ==
    { p \in (1..Len(c)) \X (1..Len(c)) :
        /\ p[1] + 2 <= p[2]
        /\ c[p[1]] = "FENCE" /\ c[p[1] + 1] = "json" /\ c[p[2]] = "FENCE" }

\* the contents of a fenced block are one JSON document, whitespace aside
ContentsParse(c, p) ==
    LET inner == { i \in (p[1] + 2)..(p[2] - 1) : c[i] # " " }
    IN  Cardinality(inner) = 1 /\ \A i \in inner : c[i] \in Docs

\* C7: generation returns a Plan only when the response text is non-empty and holds
\* a fenced block whose contents parse; an empty or missing text raises the
\* empty-response error; a text without a fenced block, or whose block does not
\* parse, raises a malformed-response error; a call that fails returns no Plan.
C7_PlanOnlyFromParsedBlock ==
    (genPc = "done" /\ ~KeyIsFalsy(genKey) /\ response.t = "Response") =>
        /\ genResult.t \in {"Plan", "Error"}
        /\ genResult.t = "Plan" =>
              /\ ~TextIsFalsy(response.text)
              /\ \E p \in FencePairs(response.text.c) : ContentsParse(response.text.c, p)
        /\ TextIsFalsy(response.text) => genResult = Raised(EmptyResponseMessage)
        /\ (~TextIsFalsy(response.text) /\ FencePairs(response.text.c) = {}) =>
              genResult = Raised(NoJsonBlockMessage)
        /\ (/\ ~TextIsFalsy(response.text)
            /\ \A p \in FencePairs(response.text.c) : ~ContentsParse(response.text.c, p)) =>
              genResult \in {Raised(NoJsonBlockMessage), Raised(MalformedJsonMessage)}

\* a narrative followed by a fenced block that does not parse was rejected
C7_Witness ==
    /\ genPc = "done"
    /\ response.t = "Response" /\ response.text.t = "string"
    /\ response.text.c = <<"x", "FENCE", "json", "{oops", "FENCE">>
    /\ genResult = Raised(MalformedJsonMessage)

(***************************************************************************)
(* verifyApiKey, and ApiKeyModal.handleSave in front of it                 *)
(***************************************************************************)
\* line 22: !apiKey || typeof apiKey !== 'string' || apiKey.trim().length === 0
VerifyRejectsLocally(k) == KeyIsFalsy(k) \/ Len(Trim(k.c)) = 0

\* VerifyAccepts without the strict check of the text: whatever comes back without
\* an error counts as valid
VerifyAccepts_AnyResponse(r) == r.t = "Response"

\* line 36: result && typeof result.text === 'string' && result.text.length > 0;
\* a raised error is caught and gives false
VerifyAccepts(r) == r.t = "Response" /\ r.text.t = "string" /\ Len(r.text.c) > 0

\* ApiKeyModal line 15: !key.trim()
GateRejectsLocally(k) == Trim(k.c) = <<>>

\* what the validation request can do: a response with a text, with an empty text,
\* with no text, no response object, or a raised error
VerifyOutcomes ==
    { [t |-> "Response", text |-> Text(<<"x">>), chunks |-> JUndef],
      [t |-> "Response", text |-> Text(<<" ">>), chunks |-> JUndef],
      [t |-> "Response", text |-> Text(<<>>), chunks |-> JUndef],
      [t |-> "Response", text |-> NoText, chunks |-> JUndef],
      JNull }
    \cup ApiErrors

MaxKeyLen == 3
KeyPieces == { " ", "k" }
Candidates == { Text(c) : c \in SeqsUpTo(KeyPieces, MaxKeyLen) }

InitVerify ==
    /\ SanOff /\ GenOff /\ UiOff
    /\ entry \in {"handleSave", "verifyApiKey"}
    /\ candidate \in Candidates
    /\ verResult = JUndef
    /\ verValid = FALSE
    /\ verCalls = 0
    /\ verPc = "start"

\* handleSave hands key.trim() to onVerify, unless it is blank
VerifyArgument == IF entry = "handleSave" THEN Text(Trim(candidate.c)) ELSE candidate

\* up to the await: the local rejections, or the request sent
VerifyStart ==
    /\ verPc = "start"
    /\ IF (entry = "handleSave" /\ GateRejectsLocally(candidate))
          \/ VerifyRejectsLocally(VerifyArgument)
       THEN verPc' = "done" /\ verCalls' = verCalls
       ELSE verPc' = "await" /\ verCalls' = verCalls + 1
    /\ UNCHANGED <<entry, candidate, verResult, verValid, sanVars, genVars, uiVars>>

\* the request comes back, or raises
VerifyReturn ==
    /\ verPc = "await"
    /\ \E r \in VerifyOutcomes :
          /\ verResult' = r
          /\ verValid' = VerifyAccepts(r)
    /\ verPc' = "done"
    /\ UNCHANGED <<entry, candidate, verCalls, sanVars, genVars, uiVars>>

NextVerify == VerifyStart \/ VerifyReturn

SpecVerify == InitVerify /\ [][NextVerify]_vars

IsBlank(k) == \A i \in 1..Len(k.c) : k.c[i] = " "

\* C3: a candidate is found valid only if it is not blank and the one validation
\* request came back, raised nothing and carried a non-empty text; for an empty or
\* whitespace-only candidate no request is sent; a raised error, a missing response
\* or a missing or empty text gives invalid.
C3_VerifyStrict ==
    /\ verCalls <= 1
    /\ IsBlank(candidate) => verCalls = 0
    /\ verPc = "done" =>
          (verValid <=> /\ ~IsBlank(candidate)
                        /\ verCalls = 1
                        /\ verResult.t = "Response"
                        /\ verResult.text.t = "string"
                        /\ verResult.text.c # <<>>)

\* a whitespace-only candidate handed to verifyApiKey was rejected with no request
C3_Witness ==
    /\ verPc = "done" /\ entry = "verifyApiKey"
    /\ candidate = Text(<<" ", " ">>)
    /\ ~verValid /\ verCalls = 0

(***************************************************************************)
(* The application: App, the ApiKeyModal gate, StrategyView and AgentChat  *)
(* over the browser local storage.  A step is one event handler or one     *)
(* promise continuation, followed by the render it causes and the effects  *)
(* of the components the render mounts, unmounts or updates.               *)
(***************************************************************************)
MaxGenerations == 2
MaxSends == 2

\* App.plan holds a reference: two objects of equal content are two plans
NoPlan == [ref |-> 0, v |-> JNull]
Held(ref, v) == [ref |-> ref, v |-> v]
PlanIsFalsy(p) == p.v.t = "null"
ObjectKeys(v) == DOMAIN v.o

GateShown(k) == KeyIsFalsy(k)
FormShown(k, p, l) == ~KeyIsFalsy(k) /\ PlanIsFalsy(p) /\ ~l
DashboardShown(k, p, l) == ~KeyIsFalsy(k) /\ (~PlanIsFalsy(p) \/ l)
\* the error banner of App: error && plan, under the header the gate replaces
ErrorShown(k, p, e) == ~KeyIsFalsy(k) /\ e.t = "string" /\ ~PlanIsFalsy(p)
PlanProp(p) == IF PlanIsFalsy(p) THEN EmptyObj ELSE p.v
IsLoadingProp(p, l) == l /\ Cardinality(ObjectKeys(p.v)) = 0
DashboardLoaded(k, p, l) == DashboardShown(k, p, l) /\ ~IsLoadingProp(p, l)
ChatShown(k, p, l, tab) ==
    /\ DashboardLoaded(k, p, l)
    /\ tab = "overview"
    /\ Cardinality(ObjectKeys(PlanProp(p))) > 2

\* the message the catch block of handleGenerate shows
GenerateErrorMessage(message) ==
    IF message \in { "[400 bad request] API key not valid" }
    THEN "Your API Key seems to be invalid. Please reset and enter a valid key."
    ELSE "An error occurred: " \o message

InvalidKeyMessage == "Invalid API Key. Please check the key and try again."

(***************************************************************************)
(* Chat messages and the JSON text of the stored history.  JSON.stringify  *)
(* leaves out the properties whose value is undefined; JSON.parse gives    *)
(* back what the text holds, and raises on a text that is not JSON.        *)
(***************************************************************************)
Greeting ==
    JObj([role |-> JStr("model"),
          text |-> JStr("I have reviewed your legacy plan. The principles are sound and the strategy is aligned with your long-term goals. How may I provide clarity or guidance?")])
Apology ==
    JObj([role |-> JStr("model"),
          text |-> JStr("Apologies, there was a data stream interruption. Please re-submit your query.")])
UserMessage(text) == JObj([role |-> JStr("user"), text |-> JStr(text)])
ModelMessage(text, sources) ==
    JObj([role |-> JStr("model"), text |-> text, sources |-> sources])

\* a stringification that also leaves the citation sources out
StringifyMessage_WithoutSources(m) ==
    JObj([k \in { f \in DOMAIN m.o : m.o[f].t # "undefined" /\ f # "sources" } |-> m.o[k]])

StringifyMessage(m) ==
    JObj([k \in { f \in DOMAIN m.o : m.o[f].t # "undefined" } |-> m.o[k]])

JSONStringify(ms) ==
    [t |-> "item", json |-> TRUE, v |-> JArr([i \in 1..Len(ms) |-> StringifyMessage(ms[i])])]
GarbageItem == [t |-> "item", json |-> FALSE, v |-> JUndef]
\* a stored text that is JSON and no list
NonListItem == [t |-> "item", json |-> TRUE, v |-> EmptyObj]
ParseHistory(item) == [ok |-> item.json, value |-> item.v]

\* the load effect: setMessages(parsed) with whatever the stored text parses to
LoadedValue(item) ==
    IF item.t = "null" THEN JArr(<<Greeting>>)
    ELSE IF ParseHistory(item).ok THEN ParseHistory(item).value
    ELSE JArr(<<Greeting>>)

\* messages.map of the render raises a TypeError where the loaded value is no list
RenderThrows(item) == ~IsArray(LoadedValue(item))

LoadMessages(item) == LoadedValue(item).a

\* a save effect that takes a list of one message for an empty one
SaveMessages_SkipsOne(ms, item) == IF Len(ms) > 1 THEN JSONStringify(ms) ELSE item

\* the save effect
SaveMessages(ms, item) == IF Len(ms) > 0 THEN JSONStringify(ms) ELSE item

HistoryForAI(ms) == [i \in 1..Len(ms) |-> [role |-> Get(ms[i], "role"), text |-> Get(ms[i], "text")]]
createAdvisorChat(p, k, history) ==
    [t |-> "chat", plan |-> p.ref, apiKey |-> k, history |-> history]

(***************************************************************************)
(* Rendering.  AgentChat is mounted where the render shows it and it was   *)
(* not: its effects run in order, the load effect setting the stored or    *)
(* the greeting list, the save effect skipping the empty list of the first *)
(* render, the session effect reading that empty list, and the save effect *)
(* again after the loaded list is rendered.  It is unmounted where the     *)
(* render no longer shows it: its state is gone and the requests it awaits *)
(* find no component when they return.  Where it stays and plan or apiKey  *)
(* changed, the session effect runs again on the current messages.         *)
(***************************************************************************)
NoSession == [t |-> "null"]
NoInput == Text(<<>>)
Orphaned(reqs) == { [r EXCEPT !.live = FALSE] : r \in reqs }

\* AgentChat with a session effect that runs at the mount only
ChatAfterRender_SessionKept(k, p, l, tab) ==
    LET shown == ChatShown(k, p, l, tab)
        loaded == LoadMessages(lsChat)
    IN  IF ~chatMounted /\ shown /\ RenderThrows(lsChat)
        THEN [crashed |-> TRUE, mounted |-> FALSE, messages |-> <<>>, session |-> NoSession,
              input |-> NoInput, thinking |-> FALSE, pending |-> Orphaned(pendingChat),
              item |-> lsChat, saved |-> savedMessages]
        ELSE IF ~chatMounted /\ shown
        THEN [crashed |-> FALSE, mounted |-> TRUE, messages |-> loaded,
              session |-> createAdvisorChat(p, k, HistoryForAI(<<>>)),
              input |-> NoInput, thinking |-> FALSE, pending |-> pendingChat,
              item |-> SaveMessages(loaded, lsChat),
              saved |-> IF Len(loaded) > 0 THEN loaded ELSE savedMessages]
        ELSE IF chatMounted /\ ~shown
        THEN [crashed |-> FALSE, mounted |-> FALSE, messages |-> <<>>, session |-> NoSession,
              input |-> NoInput, thinking |-> FALSE, pending |-> Orphaned(pendingChat),
              item |-> lsChat, saved |-> savedMessages]
        ELSE [crashed |-> FALSE, mounted |-> chatMounted, messages |-> messages,
              session |-> chatSession,
              input |-> input, thinking |-> isThinking, pending |-> pendingChat,
              item |-> lsChat, saved |-> savedMessages]

ChatAfterRender(k, p, l, tab) ==
    LET shown == ChatShown(k, p, l, tab)
        loaded == LoadMessages(lsChat)
    IN  IF ~chatMounted /\ shown /\ RenderThrows(lsChat)
        THEN [crashed |-> TRUE, mounted |-> FALSE, messages |-> <<>>, session |-> NoSession,
              input |-> NoInput, thinking |-> FALSE, pending |-> Orphaned(pendingChat),
              item |-> lsChat, saved |-> savedMessages]
        ELSE IF ~chatMounted /\ shown
        THEN [crashed |-> FALSE, mounted |-> TRUE, messages |-> loaded,
              session |-> createAdvisorChat(p, k, HistoryForAI(<<>>)),
              input |-> NoInput, thinking |-> FALSE, pending |-> pendingChat,
              item |-> SaveMessages(loaded, lsChat),
              saved |-> IF Len(loaded) > 0 THEN loaded ELSE savedMessages]
        ELSE IF chatMounted /\ ~shown
        THEN [crashed |-> FALSE, mounted |-> FALSE, messages |-> <<>>, session |-> NoSession,
              input |-> NoInput, thinking |-> FALSE, pending |-> Orphaned(pendingChat),
              item |-> lsChat, saved |-> savedMessages]
        ELSE [crashed |-> FALSE, mounted |-> chatMounted, messages |-> messages,
              session |-> IF chatMounted /\ (p # plan \/ k # apiKey)
                          THEN createAdvisorChat(p, k, HistoryForAI(messages))
                          ELSE chatSession,
              input |-> input, thinking |-> isThinking, pending |-> pendingChat,
              item |-> lsChat, saved |-> savedMessages]

\* the render after App state became k, p, l: StrategyView keeps its tab while shown
Render(k, p, l) ==
    LET tab == IF DashboardShown(k, p, l) THEN activeTab ELSE "overview"
        chat == ChatAfterRender(k, p, l, tab)
    IN  /\ appPc' = IF chat.crashed THEN "crashed" ELSE appPc
        /\ activeTab' = tab
        /\ chatMounted' = chat.mounted
        /\ messages' = chat.messages
        /\ chatSession' = chat.session
        /\ input' = chat.input
        /\ isThinking' = chat.thinking
        /\ pendingChat' = chat.pending
        /\ lsChat' = chat.item
        /\ savedMessages' = chat.saved
        /\ UNCHANGED sendCount

\* a freshly mounted ApiKeyModal
GateFresh ==
    /\ key' = Text(<<>>)
    /\ gateError' = JNull
    /\ gateIsLoading' = FALSE
    /\ gatePc' = "idle"

(***************************************************************************)
(* The states a browser session starts in: the storage as an earlier       *)
(* session can have left it, nothing in memory.                            *)
(***************************************************************************)
PriorHistory ==
    << Greeting, UserMessage("q"),
       ModelMessage(JUndef, JArr(<<JObj([title |-> JStr("A"), url |-> JStr("http://a")])>>)) >>

Init ==
    /\ SanOff /\ GenOff /\ VerOff
    /\ lsKey \in { JNull, Text(<<"k">>) }
    /\ savedMessages \in { <<>>, PriorHistory }
    /\ lsChat \in IF savedMessages = <<>> THEN { JNull, GarbageItem, NonListItem }
                  ELSE { JSONStringify(savedMessages) }
    /\ appPc = "boot" /\ apiKey = JNull /\ plan = NoPlan /\ loading = FALSE /\ error = JNull
    /\ genCount = 0 /\ pendingGen = {}
    /\ key = Text(<<>>) /\ gateError = JNull /\ gateIsLoading = FALSE /\ gatePc = "idle"
    /\ isValid = FALSE
    /\ activeTab = "overview"
    /\ chatMounted = FALSE /\ messages = <<>> /\ chatSession = NoSession /\ input = NoInput
    /\ isThinking = FALSE /\ sendCount = 0 /\ pendingChat = {}

offVars == <<sanVars, genVars, verVars>>

\* the startup effect of App
AppMount ==
    /\ appPc = "boot"
    /\ appPc' = "run"
    /\ apiKey' = IF ~KeyIsFalsy(lsKey) THEN lsKey ELSE apiKey
    /\ UNCHANGED <<offVars, storeVars, plan, loading, error, genCount, pendingGen,
                   gateVars, activeTab, chatVars>>

\* the page is loaded again: memory starts over, the storage stays.  It is all that
\* is left to do once a render has raised, React having removed the whole tree
Reload ==
    /\ appPc \in { "run", "crashed" }
    /\ appPc' = "boot" /\ apiKey' = JNull /\ plan' = NoPlan /\ loading' = FALSE
    /\ error' = JNull /\ pendingGen' = {}
    /\ GateFresh /\ isValid' = FALSE
    /\ activeTab' = "overview"
    /\ chatMounted' = FALSE /\ messages' = <<>> /\ chatSession' = NoSession
    /\ input' = NoInput /\ isThinking' = FALSE /\ pendingChat' = {}
    /\ UNCHANGED <<offVars, storeVars, genCount, sendCount>>

(***************************************************************************)
(* ApiKeyModal                                                             *)
(***************************************************************************)
GateKeys == { Text(<<" ">>), Text(<<"k", " ">>) }

\* the onChange of the input, enabled while no verification runs
setKey(k) ==
    /\ appPc = "run" /\ GateShown(apiKey) /\ ~gateIsLoading
    /\ k # key
    /\ key' = k
    /\ UNCHANGED <<offVars, storeVars, appVars, gateError, gateIsLoading, gatePc, isValid,
                   activeTab, chatVars>>

\* the button, or Enter in the input: up to the await of onVerify
handleSave ==
    /\ appPc = "run" /\ GateShown(apiKey) /\ ~gateIsLoading /\ gatePc = "idle"
    /\ IF GateRejectsLocally(key)
       THEN /\ gateError' = JStr("API Key cannot be empty.")
            /\ UNCHANGED <<gateIsLoading, gatePc>>
       ELSE /\ gateError' = JNull
            /\ gateIsLoading' = TRUE
            /\ gatePc' = "await"
    /\ isValid' = FALSE
    /\ UNCHANGED <<offVars, storeVars, appVars, key, activeTab, chatVars>>

\* onSave with everything a handleSave that does not look at isValid would do
handleSaveResumed_IgnoresIsValid(valid) ==
    LET k == Text(Trim(key.c))
    IN  /\ lsKey' = k
        /\ apiKey' = k
        /\ GateFresh
        /\ Render(k, plan, loading)

\* onSave with the input as typed where the trimmed input was verified
handleSaveResumed_SavesUntrimmed(valid) ==
    IF valid
    THEN /\ lsKey' = key
         /\ apiKey' = key
         /\ GateFresh
         /\ Render(key, plan, loading)
    ELSE /\ gateError' = JStr(InvalidKeyMessage)
         /\ gateIsLoading' = FALSE
         /\ gatePc' = "idle"
         /\ UNCHANGED <<storeVars, appPc, apiKey, key, activeTab, chatVars>>

\* handleSave after the await: onSave (handleApiKeySave) or the error
handleSaveResumed(valid) ==
    LET k == Text(Trim(key.c))
    IN  IF valid
        THEN /\ lsKey' = k
             /\ apiKey' = k
             /\ GateFresh
             /\ Render(k, plan, loading)
        ELSE /\ gateError' = JStr(InvalidKeyMessage)
             /\ gateIsLoading' = FALSE
             /\ gatePc' = "idle"
             /\ UNCHANGED <<storeVars, appPc, apiKey, key, activeTab, chatVars>>

\* verifyApiKey returns to handleSave
VerifyResolved ==
    /\ appPc = "run" /\ gatePc = "await"
    /\ \E r \in VerifyOutcomes :
          LET valid == ~VerifyRejectsLocally(Text(Trim(key.c))) /\ VerifyAccepts(r)
          IN  /\ isValid' = valid
              /\ handleSaveResumed(valid)
    /\ UNCHANGED <<offVars, plan, loading, error, genCount, pendingGen>>

(***************************************************************************)
(* App                                                                     *)
(***************************************************************************)
\* what generateInvestmentStrategy is answered in the application runs
AppResponses ==
    { Raised("[400 bad request] API key not valid"),
      [t |-> "Response", text |-> Text(FencedText("null")), chunks |-> JUndef],
      [t |-> "Response", text |-> Text(FencedText("{plan}")), chunks |-> JUndef] }

resetApp ==
    /\ plan' = NoPlan
    /\ error' = JNull
    /\ loading' = FALSE

\* a reset that leaves the stored key in place
handleApiKeyClear_KeepsStored ==
    /\ appPc = "run" /\ ~GateShown(apiKey)
    /\ lsKey' = lsKey
    /\ apiKey' = JNull
    /\ resetApp
    /\ GateFresh /\ isValid' = FALSE
    /\ Render(JNull, NoPlan, FALSE)
    /\ UNCHANGED <<offVars, genCount, pendingGen>>

\* the Reset Key button of the header
handleApiKeyClear ==
    /\ appPc = "run" /\ ~GateShown(apiKey)
    /\ lsKey' = JNull
    /\ apiKey' = JNull
    /\ resetApp
    /\ GateFresh /\ isValid' = FALSE
    /\ Render(JNull, NoPlan, FALSE)
    /\ UNCHANGED <<offVars, genCount, pendingGen>>

\* the Start Over button of the dashboard area
StartOver ==
    /\ appPc = "run" /\ DashboardShown(apiKey, plan, loading)
    /\ resetApp
    /\ Render(apiKey, NoPlan, FALSE)
    /\ UNCHANGED <<offVars, lsKey, apiKey, genCount, pendingGen, gateVars>>

\* the form is submitted: handleGenerate up to its await
handleGenerate ==
    /\ appPc = "run" /\ FormShown(apiKey, plan, loading)
    /\ genCount < MaxGenerations
    /\ IF KeyIsFalsy(apiKey)
       THEN /\ error' = JStr("API Key is not set. Please configure your API Key.")
            /\ UNCHANGED <<appPc, plan, loading, genCount, pendingGen, storeVars, activeTab,
                           chatVars>>
       ELSE /\ loading' = TRUE
            /\ error' = JNull
            /\ plan' = Held(genCount + 1, EmptyObj)
            /\ genCount' = genCount + 1
            /\ pendingGen' = pendingGen \cup { [id |-> genCount + 1, apiKey |-> apiKey] }
            /\ Render(apiKey, Held(genCount + 1, EmptyObj), TRUE)
            /\ UNCHANGED lsKey
    /\ UNCHANGED <<offVars, apiKey, gateVars>>

\* handleGenerate after the await: the plan or the error, then the finally block
GenerateResolved ==
    /\ appPc = "run"
    /\ \E req \in pendingGen, r \in AppResponses :
          LET res == generateInvestmentStrategy(req.apiKey, r)
              p == IF res.t = "Plan" THEN Held(req.id, res.plan) ELSE plan
          IN  /\ pendingGen' = pendingGen \ { req }
              /\ plan' = p
              /\ error' = IF res.t = "Plan" THEN error
                          ELSE JStr(GenerateErrorMessage(res.message))
              /\ loading' = FALSE
              /\ Render(apiKey, p, FALSE)
    /\ UNCHANGED <<offVars, lsKey, apiKey, genCount, gateVars>>

(***************************************************************************)
(* StrategyView                                                            *)
(***************************************************************************)
Tabs == { "overview", "market", "rebalance" }

TabOffered(tab) ==
    tab = "rebalance" => Truthy(Get(PlanProp(plan), "portfolioAnalysis"))

setActiveTab(tab) ==
    /\ appPc = "run" /\ DashboardLoaded(apiKey, plan, loading)
    /\ TabOffered(tab)
    /\ tab # activeTab
    /\ LET chat == ChatAfterRender(apiKey, plan, loading, tab)
       IN  /\ appPc' = IF chat.crashed THEN "crashed" ELSE appPc
           /\ activeTab' = tab
           /\ chatMounted' = chat.mounted
           /\ messages' = chat.messages
           /\ chatSession' = chat.session
           /\ input' = chat.input
           /\ isThinking' = chat.thinking
           /\ pendingChat' = chat.pending
           /\ lsChat' = chat.item
           /\ savedMessages' = chat.saved
    /\ UNCHANGED <<offVars, lsKey, apiKey, plan, loading, error, genCount, pendingGen,
                   gateVars, sendCount>>

(***************************************************************************)
(* AgentChat                                                               *)
(***************************************************************************)
ChatInputs == { Text(<<" ">>), Text(<<"q">>) }
QUICK_ACTIONS == { "How does this plan protect against inflation?" }

\* what chatSession.sendMessage is answered
ChatReplies ==
    { [t |-> "Response", text |-> Text(<<"x">>),
       chunks |-> JArr(<<JObj([web |-> JObj([uri |-> JStr("http://a"), title |-> JStr("A")])]),
                         JObj([web |-> JObj([uri |-> JStr("http://c")])])>>)],
      Raised("Failed to fetch") }

\* the onChange of the input, which is never disabled
setInput(text) ==
    /\ appPc = "run" /\ chatMounted
    /\ text # input
    /\ input' = text
    /\ UNCHANGED <<offVars, storeVars, appVars, gateVars, activeTab, chatMounted, messages,
                   chatSession, isThinking, sendCount, pendingChat>>

\* a handleSend that puts the user message in front of the list
handleSend_Prepends(text) ==
    IF Trim(text.c) = <<>> \/ chatSession.t = "null"
    THEN UNCHANGED <<lsChat, savedMessages, messages, input, isThinking, sendCount, pendingChat>>
    ELSE LET appended == <<UserMessage(Join(text.c))>> \o messages
         IN  /\ input' = NoInput
             /\ messages' = appended
             /\ isThinking' = TRUE
             /\ sendCount' = sendCount + 1
             /\ pendingChat' = pendingChat \cup { [id |-> sendCount + 1, live |-> TRUE] }
             /\ lsChat' = SaveMessages(appended, lsChat)
             /\ savedMessages' = appended

\* handleSend up to its await, and the save effect for the appended message
handleSend(text) ==
    IF Trim(text.c) = <<>> \/ chatSession.t = "null"
    THEN UNCHANGED <<lsChat, savedMessages, messages, input, isThinking, sendCount, pendingChat>>
    ELSE LET appended == Append(messages, UserMessage(Join(text.c)))
         IN  /\ input' = NoInput
             /\ messages' = appended
             /\ isThinking' = TRUE
             /\ sendCount' = sendCount + 1
             /\ pendingChat' = pendingChat \cup { [id |-> sendCount + 1, live |-> TRUE] }
             /\ lsChat' = SaveMessages(appended, lsChat)
             /\ savedMessages' = appended

\* the send button
SendButton ==
    /\ appPc = "run" /\ chatMounted /\ sendCount < MaxSends
    /\ Trim(input.c) # <<>> /\ ~isThinking
    /\ handleSend(input)
    /\ UNCHANGED <<offVars, lsKey, appVars, gateVars, activeTab, chatMounted, chatSession>>

\* a quick-action chip
QuickAction ==
    /\ appPc = "run" /\ chatMounted /\ sendCount < MaxSends
    /\ ~isThinking
    /\ \E action \in QUICK_ACTIONS : handleSend(Text(<<action>>))
    /\ UNCHANGED <<offVars, lsKey, appVars, gateVars, activeTab, chatMounted, chatSession>>

\* Enter in the input
handleKeyPress ==
    /\ appPc = "run" /\ chatMounted /\ sendCount < MaxSends
    /\ handleSend(input)
    /\ UNCHANGED <<offVars, lsKey, appVars, gateVars, activeTab, chatMounted, chatSession>>

\* the ask buttons of StrategyView: of an expanded holding on the overview tab, of
\* the market tab, of the rebalance tab
AskOffered ==
    CASE activeTab = "overview" ->
            /\ IsArray(Get(PlanProp(plan), "allocations"))
            /\ Len(Get(PlanProp(plan), "allocations").a) > 0
      [] activeTab = "market" -> TRUE
      [] activeTab = "rebalance" -> Truthy(Get(PlanProp(plan), "portfolioAnalysis"))

AskMessage ==
    CASE activeTab = "overview" ->
            LET item == Get(PlanProp(plan), "allocations").a[1]
            IN  "Provide a deeper, data-driven perspective on " \o Get(item, "ticker").s
                   \o " (" \o Get(item, "name").s
                   \o "). What are the key performance indicators to watch?"
      [] activeTab = "market" ->
            "Explain the current Global Macro Outlook from a quantitative perspective."
      [] activeTab = "rebalance" ->
            "Explain my portfolio health score in detail. Why is it not 100?"

\* chatRef.current?.triggerChat(msg)
triggerAgent ==
    /\ appPc = "run" /\ DashboardLoaded(apiKey, plan, loading) /\ sendCount < MaxSends
    /\ AskOffered
    /\ IF chatMounted
       THEN handleSend(Text(<<AskMessage>>))
       ELSE UNCHANGED <<lsChat, savedMessages, messages, input, isThinking, sendCount, pendingChat>>
    /\ UNCHANGED <<offVars, lsKey, appVars, gateVars, activeTab, chatMounted, chatSession>>

ReplyMessage(r) ==
    IF r.t = "Error" THEN Apology
    ELSE ModelMessage(IF r.text.t = "undefined" THEN JUndef ELSE JStr(Join(r.text.c)),
                      ExtractSources(r.chunks))

\* handleSend after the await; the setters of an unmounted component do nothing
SendResolved ==
    /\ appPc = "run"
    /\ \E req \in pendingChat, r \in ChatReplies :
          /\ pendingChat' = pendingChat \ { req }
          /\ IF req.live
             THEN LET appended == Append(messages, ReplyMessage(r))
                  IN  /\ messages' = appended
                      /\ isThinking' = FALSE
                      /\ lsChat' = SaveMessages(appended, lsChat)
                      /\ savedMessages' = appended
             ELSE UNCHANGED <<messages, isThinking, lsChat, savedMessages>>
    /\ UNCHANGED <<offVars, lsKey, appVars, gateVars, activeTab, chatMounted, chatSession,
                   input, sendCount>>

Next ==
    \/ AppMount
    \/ Reload
    \/ \E k \in GateKeys : setKey(k)
    \/ handleSave
    \/ VerifyResolved
    \/ handleApiKeyClear
    \/ StartOver
    \/ handleGenerate
    \/ GenerateResolved
    \/ \E tab \in Tabs : setActiveTab(tab)
    \/ \E text \in ChatInputs : setInput(text)
    \/ SendButton
    \/ QuickAction
    \/ handleKeyPress
    \/ triggerAgent
    \/ SendResolved

Spec == Init /\ [][Next]_vars

(***************************************************************************)
(* Properties of the application                                           *)
(***************************************************************************)
\* C4: a verification attempt at the gate ends with the credential stored, in memory
\* and in local storage, and the application unblocked exactly when the
\* verification succeeded; when it failed the credential stays absent, nothing is
\* written to storage, the error message is set, and the gate is still shown and
\* ready for another attempt.
C4_GateStoresIffVerified ==
    [][ (gatePc = "await" /\ gatePc' = "idle" /\ appPc' = "run") =>
           IF isValid'
           THEN /\ apiKey' = Text(Trim(key.c))
                /\ lsKey' = apiKey'
                /\ ~GateShown(apiKey')
           ELSE /\ apiKey' = JNull
                /\ lsKey' = JNull
                /\ UNCHANGED storeVars
                /\ gateError' = JStr(InvalidKeyMessage)
                /\ GateShown(apiKey')
                /\ ~gateIsLoading'
                /\ key' = key ]_vars

C4_Witness ==
    /\ appPc = "run" /\ GateShown(apiKey)
    /\ gateError = JStr(InvalidKeyMessage)
    /\ gatePc = "idle" /\ ~gateIsLoading
    /\ lsKey = JNull

\* C5: a reset of the credential leaves no credential in memory or in local
\* storage, no Plan, and no chat history in memory or in local storage.
C5_ClearDiscardsChatHistory ==
    [][ (~KeyIsFalsy(apiKey) /\ KeyIsFalsy(apiKey') /\ appPc' = "run") =>
           /\ apiKey' = JNull
           /\ lsKey' = JNull
           /\ PlanIsFalsy(plan')
           /\ messages' = <<>>
           /\ lsChat' = JNull ]_vars

SameMessage(a, b) == \A f \in { "role", "text", "sources" } : Get(a, f) = Get(b, f)

\* C6: where the chat component starts on a persisted history, the list it
\* rehydrates is the list that was persisted, message by message in role, text and
\* sources, and the stored history is left as it was.
C6_HistoryRoundTrip ==
    [][ (~chatMounted /\ chatMounted' /\ savedMessages # <<>>) =>
           /\ Len(messages') = Len(savedMessages)
           /\ \A i \in 1..Len(savedMessages) : SameMessage(messages'[i], savedMessages[i])
           /\ lsChat' = lsChat ]_vars

C6_Witness ==
    /\ chatMounted /\ sendCount = 0
    /\ Len(messages) = Len(PriorHistory)
    /\ \A i \in 1..Len(PriorHistory) : SameMessage(messages[i], PriorHistory[i])
    /\ messages # PriorHistory
    /\ lsChat = JSONStringify(PriorHistory)

RequiredPlanFields ==
    { "summary", "riskAnalysis", "actionableSteps", "swot", "allocations", "projections",
      "sources", "marketAnalysis", "secEvents", "sectorTrends" }

\* C8: whenever StrategyView is rendered out of its loading state, the Plan it is
\* handed has every required field.
C8_DashboardPlanComplete ==
    (appPc = "run" /\ DashboardLoaded(apiKey, plan, loading))
        => RequiredPlanFields \subseteq ObjectKeys(PlanProp(plan))

\* C9: when a chat request completes, exactly one model message is appended to the
\* messages in memory and to the stored history, and isThinking is cleared.
C9_ReplyAppendedOnCompletion ==
    [][ (Cardinality(pendingChat') < Cardinality(pendingChat) /\ appPc' = "run") =>
           /\ Len(messages') = Len(messages) + 1
           /\ Get(messages'[Len(messages')], "role") = JStr("model")
           /\ ~isThinking'
           /\ lsChat' = JSONStringify(messages') ]_vars

\* C10: at most one request of the mounted chat is awaited at any time.
C10_OneOutstandingRequest ==
    Cardinality({ r \in pendingChat : r.live }) <= 1

\* C11: where the plan reference or the credential changes under a mounted chat,
\* the chat holds a new session, made for the new plan and credential, in place of
\* the prior one, and the messages are as they were.
C11_SessionReplacedHistoryKept ==
    [][ (chatMounted /\ chatMounted' /\ (plan' # plan \/ apiKey' # apiKey)) =>
           /\ chatSession' # chatSession
           /\ chatSession'.t = "chat"
           /\ chatSession'.plan = plan'.ref
           /\ chatSession'.apiKey = apiKey'
           /\ messages' = messages ]_vars

C11_Witness ==
    /\ chatMounted
    /\ chatSession.plan = MaxGenerations
    /\ chatSession.history = HistoryForAI(messages)
    /\ Len(messages) > 1

\* C12: while the chat is mounted, at rest after every append, the stored chat
\* history is the JSON text of the messages in memory.
C12_StoredHistoryIsCurrent ==
    (appPc = "run" /\ chatMounted) => lsChat = JSONStringify(messages)

C12_Witness ==
    /\ chatMounted /\ ~isThinking /\ pendingChat = {}
    /\ sendCount = MaxSends
    /\ Len(messages) >= 5
    /\ Get(messages[Len(messages)], "role") = JStr("model")

\* C13: where the chat starts and the stored history is absent or is no list of
\* messages, the chat is mounted with the greeting as its only message and the
\* application goes on.
C13_UnreadableHistoryGreets ==
    [][ ( /\ appPc = "run" /\ ~chatMounted
          /\ ChatShown(apiKey', plan', loading', activeTab')
          /\ (lsChat = JNull \/ lsChat = GarbageItem \/ lsChat = NonListItem) ) =>
           /\ appPc' = "run"
           /\ chatMounted'
           /\ messages' = <<Greeting>> ]_vars

(***************************************************************************)
(* Properties of the sanitizer, field by field                             *)
(***************************************************************************)
\* the defaults the allocation fields are declared to have
AllocationDefault(f) ==
    CASE f = "name" -> JStr("N/A")
      [] f = "sector" -> JStr("N/A")
      [] f = "percentage" -> JNum(0)
      [] f = "type" -> JStr("ETF")
      [] f = "rationale" -> JStr("No rationale provided.")
      [] f = "accountType" -> JStr("Brokerage")
      [] f = "technicalAnalysis" -> JObj([summary |-> JStr("No technical analysis provided."),
                                          support |-> JStr("-"), resistance |-> JStr("-"),
                                          indicatorSignal |-> JStr("-")])
      [] f = "marketSentiment" -> JObj([score |-> JStr("Neutral"),
                                        summary |-> JStr("No sentiment analysis provided."),
                                        analystRating |-> JStr("-")])
ScalarAllocationFields == { "name", "sector", "percentage", "type", "rationale", "accountType" }
RecordAllocationFields == { "technicalAnalysis", "marketSentiment" }

\* the entries of the payload that the sanitized list answers to, in order
KeptEntries == SelectSeq(Get(data, "allocations").a, LAMBDA a : a.t = "object" /\ Truthy(Get(a, "ticker")))
SanitizedEntries == Get(sanitizedPlan, "allocations").a
AllocationsSanitized ==
    /\ sanPc = "done" /\ sanitizedPlan.t = "object"
    /\ IsArray(Get(data, "allocations"))
    /\ Len(SanitizedEntries) = Len(KeptEntries)

C16_NoPortfolioAnalysisSynthesized ==
    (sanPc = "done" /\ sanitizedPlan.t = "object"
        /\ Get(data, "portfolioAnalysis").t \in { "undefined", "null" })
        => Get(sanitizedPlan, "portfolioAnalysis") = JUndef

\* C16 amended: where the payload has no portfolioAnalysis, the sanitized Plan has
\* none either, undefined for a missing field and null for a null one, and whatever
\* portfolioAnalysis a sanitized Plan has is the one of the payload.
C16_PortfolioAnalysisNotSynthesized ==
    (sanPc = "done" /\ sanitizedPlan.t = "object") =>
        /\ Get(data, "portfolioAnalysis").t \in { "undefined", "null" }
              => Get(sanitizedPlan, "portfolioAnalysis") = Get(data, "portfolioAnalysis")
        /\ Get(sanitizedPlan, "portfolioAnalysis").t # "undefined"
              => Get(sanitizedPlan, "portfolioAnalysis") = Get(data, "portfolioAnalysis")

C16_Witness ==
    /\ sanPc = "done" /\ sanitizedPlan.t = "object"
    /\ Get(data, "portfolioAnalysis") = JNull
    /\ Get(sanitizedPlan, "portfolioAnalysis") = JNull

\* C17: where the allocations field of the payload is no list, the allocation list
\* of the sanitized Plan is empty.
C17_NonListAllocationsEmptied ==
    (sanPc = "done" /\ sanitizedPlan.t = "object" /\ ~IsArray(Get(data, "allocations")))
        => Get(sanitizedPlan, "allocations") = JArr(<<>>)

C17_Witness ==
    /\ sanPc = "done" /\ sanitizedPlan.t = "object"
    /\ Get(data, "allocations") = JStr("VTI")
    /\ Get(sanitizedPlan, "allocations") = JArr(<<>>)

(***************************************************************************)
(* Properties of the generation, field by field                            *)
(***************************************************************************)
\* the text before the first opening fence
NarrativeOf(c) ==
    SubSeq(c, 1, MinOf({ i \in 1..(Len(c) - 1) : c[i] = "FENCE" /\ c[i + 1] = "json" }) - 1)
PlanGenerated == genPc = "done" /\ genResult.t = "Plan"

\* C15: the summary of a generated Plan is the narrative that precedes the first
\* opening fence, without the whitespace around it; where nothing but whitespace
\* precedes the fence it is the text "No summary provided.".
C15_SummaryIsTrimmedNarrative ==
    PlanGenerated
        => Get(genResult.plan, "summary") =
              IF Trim(NarrativeOf(response.text.c)) # <<>>
              THEN JStr(Join(Trim(NarrativeOf(response.text.c))))
              ELSE JStr("No summary provided.")

C15_Witness ==
    /\ PlanGenerated
    /\ response.text.c = FencedText("{plan}")
    /\ Get(genResult.plan, "summary") = JStr("x")

\* the citation entries that have a URL and a title, in citation order
CitedSources(chunks) ==
    IF chunks.t = "array"
    THEN LET cited == SelectSeq(chunks.a,
                         LAMBDA ch : /\ Get(ch, "web").t = "object"
                                     /\ Get(Get(ch, "web"), "uri").t = "string"
                                     /\ Get(Get(ch, "web"), "uri").s # ""
                                     /\ Get(Get(ch, "web"), "title").t = "string"
                                     /\ Get(Get(ch, "web"), "title").s # "")
         IN  [i \in 1..Len(cited) |->
                 JObj([title |-> Get(Get(cited[i], "web"), "title"),
                       url |-> Get(Get(cited[i], "web"), "uri")])]
    ELSE <<>>

\* C18: the sources of a generated Plan are the citation entries of the model call
\* that have a URL and a title, in citation order, whatever sources the payload has.
C18_SourcesFromCitations ==
    PlanGenerated => Get(genResult.plan, "sources") = JArr(CitedSources(response.chunks))

C18_Witness ==
    /\ PlanGenerated
    /\ response.text.c = FencedText("{plan}")
    /\ response.chunks.t = "array" /\ Len(response.chunks.a) = MaxChunks
    /\ Len(Get(genResult.plan, "sources").a) = 1
    /\ Get(genResult.plan, "sources").a[1] # SampleSource

(***************************************************************************)
(* Properties of the credential and of the storage                         *)
(***************************************************************************)
\* C19: the credential in memory and in local storage is only ever set to the key
\* a verification has just accepted, or, at startup, to the key an earlier session
\* stored; and every generation request and every chat session is issued with the
\* credential in memory.
C19_OnlyVerifiedKeyDownstream ==
    [][ /\ (apiKey' # apiKey /\ ~KeyIsFalsy(apiKey')) =>
              \/ appPc = "boot" /\ apiKey' = lsKey
              \/ gatePc = "await" /\ isValid' /\ apiKey' = Text(Trim(key.c))
        /\ (lsKey' # lsKey /\ lsKey' # JNull) =>
              gatePc = "await" /\ isValid' /\ lsKey' = Text(Trim(key.c))
        /\ \A req \in pendingGen' \ pendingGen :
              ~KeyIsFalsy(apiKey) /\ req.apiKey = apiKey
        /\ (chatSession' # chatSession /\ chatSession'.t = "chat") =>
              ~KeyIsFalsy(apiKey') /\ chatSession'.apiKey = apiKey' ]_vars

C19_Witness ==
    /\ isValid /\ apiKey = Text(<<"k">>) /\ lsKey = apiKey
    /\ chatMounted /\ chatSession.apiKey = apiKey
    /\ \E req \in pendingGen : req.apiKey = apiKey

\* C20: the application persists nothing derived from the conversation, so a page
\* refresh finds only the credential: no step writes to the chat history item
\* anything but its removal or the constant greeting.
C20_NoConversationPersisted ==
    [][ lsChat' # lsChat => lsChat' \in {JNull, JSONStringify(<<Greeting>>)} ]_vars

(***************************************************************************)
(* Properties of the requests and of their failures                        *)
(***************************************************************************)
RequestIds(reqs) == { r.id : r \in reqs }

\* a step issues at most one external call, and only as the handler of a user
\* action: handleSave, handleGenerate or handleSend; a step that completes a call
\* issues none
NoRetryStep ==
    LET newGen == RequestIds(pendingGen') \ RequestIds(pendingGen)
        newChat == RequestIds(pendingChat') \ RequestIds(pendingChat)
        newVerify == IF gatePc # "await" /\ gatePc' = "await" THEN 1 ELSE 0
        completes == \/ gatePc = "await" /\ gatePc' # "await"
                     \/ Cardinality(pendingGen') < Cardinality(pendingGen)
                     \/ Cardinality(pendingChat') < Cardinality(pendingChat)
    IN  /\ Cardinality(newGen) + Cardinality(newChat) + newVerify <= 1
        /\ newGen # {} => genCount' = genCount + 1 /\ FormShown(apiKey, plan, loading)
        /\ newChat # {} => sendCount' = sendCount + 1 /\ chatMounted
        /\ newVerify = 1 => GateShown(apiKey) /\ ~gateIsLoading
        /\ completes => Cardinality(newGen) + Cardinality(newChat) + newVerify = 0

\* the failure of a call is shown: of a verification by the message of the gate, of
\* a generation by the error banner, of a chat send by a model message appended
FailureSurfacedStep ==
    /\ (gatePc = "await" /\ gatePc' = "idle" /\ ~isValid' /\ appPc' = "run") =>
          GateShown(apiKey') /\ gateError' = JStr(InvalidKeyMessage)
    /\ (Cardinality(pendingGen') < Cardinality(pendingGen) /\ plan' = plan /\ appPc' = "run") =>
          ErrorShown(apiKey', plan', error')
    /\ (Cardinality(pendingChat') < Cardinality(pendingChat) /\ appPc' = "run") =>
          /\ Len(messages') = Len(messages) + 1
          /\ SubSeq(messages', 1, Len(messages)) = messages
          /\ Get(messages'[Len(messages')], "role") = JStr("model")

\* C21: no call is issued again of itself and every failure is shown to the user:
\* every step issues at most one call, as the handler of a user action, a step
\* completing a call issues none, and a step in which a call fails shows the failure.
C21_NoRetryFailureSurfaced ==
    [][ NoRetryStep /\ FailureSurfacedStep ]_vars

\* C22: whenever a chat session is created, the history it is created with is the
\* history of the messages the chat then holds, the rehydrated ones included (a chat
\* holding the greeting alone is left aside).
C22_SessionHistoryIsMessages ==
    [][ (chatSession' # chatSession /\ chatSession'.t = "chat" /\ messages' # <<Greeting>>) =>
           chatSession'.history = HistoryForAI(messages') ]_vars

\* C23: wherever the dashboard of a complete Plan offers an ask button, on any tab,
\* the chat is there to take the question: triggerAgent finds the mounted AgentChat
\* and handleSend, holding a session, appends the message and issues the request.
C23_AskReachesChat ==
    ( /\ appPc = "run" /\ DashboardLoaded(apiKey, plan, loading)
      /\ RequiredPlanFields \subseteq ObjectKeys(PlanProp(plan))
      /\ AskOffered )
        => /\ chatMounted
           /\ chatSession.t = "chat"
           /\ Trim(<<AskMessage>>) # <<>>

\* C24: under a mounted chat every change of the message list, and with it of the
\* stored history, adds one message at the end and leaves the others as they were.
C24_MessagesAppendOnly ==
    [][ (chatMounted /\ chatMounted' /\ messages' # messages) =>
           /\ Len(messages') = Len(messages) + 1
           /\ SubSeq(messages', 1, Len(messages)) = messages
           /\ lsChat' = JSONStringify(messages') ]_vars

\* two sends were outstanding together; one was answered, the other failed
C24_Witness ==
    /\ chatMounted /\ Len(messages) = 7 /\ pendingChat = {}
    /\ messages[1] = Greeting
    /\ Get(messages[4], "role") = JStr("user") /\ Get(messages[5], "role") = JStr("user")
    /\ Get(messages[6], "text") = JStr("x") /\ messages[7] = Apology

\* C25: while the credential is absent no Plan is held.
C25_NoPlanWithoutCredential ==
    (appPc = "run" /\ KeyIsFalsy(apiKey)) => PlanIsFalsy(plan)

\* C26: under a credential, a generated Plan becomes the Plan held only in place of
\* the placeholder of its own request, which is the request submitted last.
C26_PlanOfLatestRequest ==
    [][ (plan' # plan /\ ~KeyIsFalsy(apiKey') /\ ~PlanIsFalsy(plan') /\ plan'.v # EmptyObj) =>
           /\ plan = Held(plan'.ref, EmptyObj)
           /\ plan'.ref = genCount ]_vars

\* C27: loading is true exactly while a generation request is awaited.
C27_LoadingIffPending ==
    appPc = "run" => (loading <=> pendingGen # {})

\* C28: under a mounted chat isThinking is true exactly while one of its requests
\* is awaited.
C28_ThinkingIffPending ==
    (appPc = "run" /\ chatMounted) => (isThinking <=> \E r \in pendingChat : r.live)

\* C29: once the startup effect has run, the credential in memory is the value
\* stored under the credential key: both absent, or both the same string.
C29_CredentialAgreesWithStorage ==
    appPc = "run" => apiKey = lsKey

\* a credential was there, a generation was started with it, and the reset left
\* none in memory and none in storage
C29_Witness ==
    /\ appPc = "run" /\ apiKey = JNull /\ lsKey = JNull
    /\ \E req \in pendingGen : req.apiKey = Text(<<"k">>)

(***************************************************************************)
(* Properties of the sanitized allocation list                             *)
(***************************************************************************)
\* a record with a ticker that is there and not empty
HasTicker(a) ==
    /\ a.t = "object"
    /\ "ticker" \in DOMAIN a.o
    /\ a.o["ticker"] \notin { JNull, JStr(""), JNum(0), JBool(FALSE) }

\* the entries of the payload that have a ticker, in the order of the payload
TickerEntries ==
    IF IsArray(Get(data, "allocations"))
    THEN SelectSeq(Get(data, "allocations").a, LAMBDA a : HasTicker(a))
    ELSE <<>>

\* C30: the allocation list of a sanitized Plan answers, entry by entry and in
\* order, to the entries of the payload that are records with a non-empty ticker:
\* same ticker, never the placeholder ticker, same dividendYield and same supplied
\* values.
C30_AllocationsAreTickerEntries ==
    (sanPc = "done" /\ sanitizedPlan.t = "object") =>
        /\ Len(SanitizedEntries) = Len(TickerEntries)
        /\ \A i \in 1..Len(TickerEntries) :
              /\ Get(SanitizedEntries[i], "ticker") = Get(TickerEntries[i], "ticker")
              /\ Get(SanitizedEntries[i], "ticker") # JStr("N/A")
              /\ Get(SanitizedEntries[i], "dividendYield") = Get(TickerEntries[i], "dividendYield")
              /\ \A f \in ScalarAllocationFields :
                    Truthy(Get(TickerEntries[i], f)) =>
                        Get(SanitizedEntries[i], f) = Get(TickerEntries[i], f)

\* an entry with an empty ticker was dropped and the entry after it kept
C30_Witness ==
    /\ sanPc = "done" /\ sanitizedPlan.t = "object"
    /\ IsArray(Get(data, "allocations"))
    /\ Len(Get(data, "allocations").a) = 2
    /\ Get(data, "allocations").a[1] = JObj([ticker |-> JStr(""), name |-> JStr("Nameless")])
    /\ Len(SanitizedEntries) = 1
    /\ Get(SanitizedEntries[1], "ticker") = JStr("BND")

====
